---- MODULE Spec2Model ----
(***************************************************************************)
(* The vorys contact pipeline: the spider (vorys/spiders/vorysdata.py),    *)
(* the item pipeline (vorys/pipelines.py), the SQLite table "vorysdata"    *)
(* they share with the FastAPI service (main.py, database.py).             *)
(*                                                                         *)
(* Text is a sequence of one-character strings; the token "mailto:" is one *)
(* symbol of a text.  A value that Python holds as None, or SQLite as      *)
(* NULL, is the record None; any other value is Text(s).                   *)
(***************************************************************************)
EXTENDS Integers, Sequences, FiniteSets, TLC

VARIABLES
    hasId,      \* the reflected table has an "id" column (main.py:147)
    site,       \* the member blocks of the listing page, in page order
    store,      \* the committed rows of vorysdata, in rowid order
    runs,       \* the crawl processes, one record per slot
    running,    \* scraping_status["running"] (main.py:78)
    last        \* the step taken last: its operation, inputs and outcome

vars == <<hasId, site, store, runs, running, last>>

-----------------------------------------------------------------------------
(* Bounds of the model *)

MaxMembers == 2     \* member blocks on the listing page
MaxId == 3          \* largest rowid the store hands out
MaxRuns == 2        \* crawl processes alive at once
MaxLimit == 2       \* largest page size N of the pagination law
MaxPatLen == 2      \* longest search filter

-----------------------------------------------------------------------------
(* Values: None / NULL and text *)

None == [none |-> TRUE, text |-> <<>>]

Text(s) == [none |-> FALSE, text |-> s]

\* Python's str(): the text itself, and "None" for None.
Str(v) == IF v.none THEN <<"N", "o", "n", "e">> ELSE v.text

\* The characters str.strip() removes.
Whitespace == {" ", "\t"}

RECURSIVE LStrip(_)
LStrip(s) == IF s # <<>> /\ Head(s) \in Whitespace THEN LStrip(Tail(s)) ELSE s

RECURSIVE RStrip(_)
RStrip(s) ==
    IF s # <<>> /\ s[Len(s)] \in Whitespace
    THEN RStrip(SubSeq(s, 1, Len(s) - 1))
    ELSE s

\* str.strip()
Strip(s) == RStrip(LStrip(s))

\* str.lower() on one character (the letters the model's texts use).
LowerChar(c) ==
    CASE c = "A" -> "a"
      [] c = "B" -> "b"
      [] c = "C" -> "c"
      [] c = "E" -> "e"
      [] c = "N" -> "n"
      [] c = "P" -> "p"
      [] c = "Q" -> "q"
      [] OTHER -> c

\* str.lower()
Lower(s) == [i \in 1..Len(s) |-> LowerChar(s[i])]

\* str.replace("mailto:", ""): every occurrence of the token is removed.
StripMailto(s) == SelectSeq(s, LAMBDA c : c # "mailto:")

-----------------------------------------------------------------------------
(* The spider: one item per member block (vorysdata.py:13-23) *)

\* A member block is what the four selectors return on it: text, or None
\* where the selector matches nothing.
ParseMember(member) ==
    [ name     |-> member.name,
      position |-> member.position,
      location |-> member.location,
      email    |-> IF member.href.none
                   THEN None                      \* None.replace raises; except: email = None
                   ELSE Text(StripMailto(member.href.text)) ]

\* The items parse() yields for a page, in page order.
ParseAll(page) == [i \in 1..Len(page) |-> ParseMember(page[i])]

-----------------------------------------------------------------------------
(* The item pipeline's normalisation (pipelines.py:29-32) *)

Normalize(item) ==
    [ name     |-> Text(Lower(Strip(Str(item.name)))),
      position |-> Text(Strip(Str(item.position))),
      location |-> Text(Lower(Strip(Str(item.location)))),
      email    |-> Text(Lower(Strip(Str(item.email)))) ]

-----------------------------------------------------------------------------
(* The table vorysdata with UNIQUE(name, location, email) *)

Triple(r) == <<r.name, r.location, r.email>>

\* SQLite's UNIQUE: two rows collide when the three columns are equal and
\* none of them is NULL (NULLs are distinct from each other).
Collide(r, q) ==
    /\ Triple(r) = Triple(q)
    /\ ~r.name.none /\ ~r.location.none /\ ~r.email.none

\* rowid of the next inserted row: one more than the largest in use.
NextRowId(rows) == IF rows = <<>> THEN 1 ELSE rows[Len(rows)].id + 1

MkRow(id, rec) ==
    [ id |-> id, name |-> rec.name, position |-> rec.position,
      location |-> rec.location, email |-> rec.email ]

\* INSERT of one row at the end of the table.
InsertRow(rows, rec) == Append(rows, MkRow(NextRowId(rows), rec))

HasConflict(rows, rec) == \E i \in 1..Len(rows) : Collide(rows[i], rec)

\* Upsert as INSERT OR REPLACE: the colliding row is deleted and the record
\* inserted as a new row.
UpsertReplacesRow(rows, rec) ==
    InsertRow(SelectSeq(rows, LAMBDA q : ~Collide(q, rec)), rec)

\* Upsert with ON CONFLICT ... DO NOTHING: the first position is kept.
UpsertKeepsFirst(rows, rec) ==
    IF HasConflict(rows, rec) THEN rows ELSE InsertRow(rows, rec)

\* INSERT ... ON CONFLICT(name, location, email) DO UPDATE SET
\* position = excluded.position  (pipelines.py:38-44)
Upsert(rows, rec) ==
    IF HasConflict(rows, rec)
    THEN [i \in 1..Len(rows) |->
            IF Collide(rows[i], rec)
            THEN [rows[i] EXCEPT !.position = rec.position]
            ELSE rows[i]]
    ELSE InsertRow(rows, rec)

\* The statements of one connection's open transaction, applied in order.
RECURSIVE UpsertAll(_, _)
UpsertAll(rows, recs) ==
    IF recs = <<>> THEN rows
    ELSE UpsertAll(Upsert(rows, Head(recs)), Tail(recs))

\* UPDATE ... WHERE id = data_id  (main.py:145-149)
UpdateRows(rows, id, data) ==
    [i \in 1..Len(rows) |->
        IF rows[i].id = id THEN MkRow(id, data) ELSE rows[i]]

\* The UPDATE would leave two colliding rows: sqlite raises IntegrityError.
UpdateConflict(rows, id, data) ==
    LET new == UpdateRows(rows, id, data)
    IN  \E i, j \in 1..Len(new) : i # j /\ Collide(new[i], new[j])

\* A delete that stops at the first matching row.
RECURSIVE DeleteFirstRow(_, _)
DeleteFirstRow(rows, name) ==
    IF rows = <<>> THEN <<>>
    ELSE IF ~Head(rows).name.none /\ Head(rows).name.text = name THEN Tail(rows)
    ELSE <<Head(rows)>> \o DeleteFirstRow(Tail(rows), name)

\* DELETE ... WHERE name == name  (main.py:162)
DeleteRows(rows, name) ==
    SelectSeq(rows, LAMBDA r : ~(~r.name.none /\ r.name.text = name))

-----------------------------------------------------------------------------
(* The inputs the model draws from *)

\* Entries of the professionals directory as member blocks.  The first two
\* normalise to the same (name, location, email) with different positions;
\* the third has no "div.email a" element and shares its name with them.
Directory ==
    << [ name |-> Text(<<" ", "A">>), position |-> Text(<<"P">>),
         location |-> Text(<<"C">>), href |-> Text(<<"mailto:", "E">>) ],
       [ name |-> Text(<<"a", " ">>), position |-> Text(<<"q", " ">>),
         location |-> Text(<<"c">>), href |-> Text(<<"mailto:", "e">>) ],
       [ name |-> Text(<<"a">>), position |-> Text(<<"P">>),
         location |-> Text(<<"c">>), href |-> None ] >>

\* The listing page shows up to MaxMembers consecutive entries.
Pages ==
    { SubSeq(Directory, w[1], w[2]) :
        w \in { v \in (1..Len(Directory)) \X (0..Len(Directory)) :
                  v[1] - 1 <= v[2] /\ v[2] - v[1] + 1 <= MaxMembers } }

\* Request bodies of POST /sourav/add and PUT /sourav/update: the second
\* carries the triple the pipeline stores for the first two entries, the
\* third has a null email and fails the ScrapedData validation.
Payloads ==
    { [ name |-> Text(<<"b">>), position |-> Text(<<"P">>),
        location |-> Text(<<"c">>), email |-> Text(<<"e">>) ],
      [ name |-> Text(<<"a">>), position |-> Text(<<"q">>),
        location |-> Text(<<"c">>), email |-> Text(<<"e">>) ],
      [ name |-> Text(<<"b">>), position |-> Text(<<"P">>),
        location |-> Text(<<"c">>), email |-> None ] }

\* ScrapedData (main.py:11-15): four str fields, none of them optional.
ValidPayload(data) ==
    ~data.name.none /\ ~data.position.none /\ ~data.location.none /\ ~data.email.none

\* Path parameters of DELETE /sourav/delete/{name}.
DeleteNames == { <<"a">>, <<"b">> }

RunIds == 1..MaxRuns

-----------------------------------------------------------------------------
(* Crawl processes *)

\* kind: "none" (free slot), "bg" (run_spider) or "sync" (get_updated_data)
\* pc: "idle", "queued" (a background task not yet started) or "crawl"
\* idx: the member blocks parse() has gone through
\* pending: rows written by the pipeline's connection and not yet committed
\* emitted: the items parse() has yielded so far
IdleRun ==
    [ kind |-> "none", pc |-> "idle", idx |-> 0, pending |-> <<>>, emitted |-> <<>> ]

\* Another connection holds the write lock of sourav.db: a transaction whose
\* commit failed stays open, and every other connection gets
\* "database is locked".
LockedFor(r) == \E q \in RunIds \ {r} : runs[q].pending # <<>>

Locked == \E q \in RunIds : runs[q].pending # <<>>

\* dict(row._mapping): the reflected columns of a row.
RowDict(row) ==
    IF hasId THEN row
    ELSE [ name |-> row.name, position |-> row.position,
           location |-> row.location, email |-> row.email ]

\* SELECT * FROM vorysdata  (main.py:28-29)
ListAll(rows) == [i \in 1..Len(rows) |-> RowDict(rows[i])]

\* What subprocess.run(["scrapy", "crawl", "vorysdata"]) comes to before the
\* first item: the start page is fetched and parse() is called ("crawling");
\* the download fails, parse() is never called and the process ends with
\* return code 0 ("fetch_failed"); the process ends with a non-zero return
\* code ("failed"); or it cannot be launched at all ("oserror").
LaunchOutcomes == {"crawling", "fetch_failed", "failed", "oserror"}

\* What the storage layer does to one process_item call: both statements
\* succeed, cur.execute raises sqlite3.Error, or con.commit does.
UpsertOutcomes == {"committed", "execute_error", "commit_error"}

-----------------------------------------------------------------------------
Init ==
    /\ hasId \in BOOLEAN
    /\ site \in Pages
    /\ store = <<>>
    /\ runs = [r \in RunIds |-> IdleRun]
    /\ running = FALSE
    /\ last = [op |-> "init", status |-> "none"]

\* A trigger that is turned down while the flag is set.
RunScraperAsyncUnlessRunning(r) ==
    /\ ~running
    /\ runs[r].pc = "idle"
    /\ \A q \in RunIds : q < r => runs[q].pc # "idle"
    /\ runs' = [runs EXCEPT ![r] = [IdleRun EXCEPT !.kind = "bg", !.pc = "queued"]]
    /\ UNCHANGED <<hasId, site, store, running>>

\* GET /  (main.py:93-96): the task is queued and the reply sent at once.
RunScraperAsync(r) ==
    /\ runs[r].pc = "idle"
    /\ \A q \in RunIds : q < r => runs[q].pc # "idle"
    /\ runs' = [runs EXCEPT ![r] = [IdleRun EXCEPT !.kind = "bg", !.pc = "queued"]]
    /\ UNCHANGED <<hasId, site, store, running>>

\* run_spider whose crawl goes through the page although the download of
\* the start page failed.
RunSpiderStartCrawlsAnyway(r, outcome) ==
    /\ runs[r].pc = "queued"
    /\ running' = (outcome \in {"crawling", "fetch_failed"})
    /\ runs' = [runs EXCEPT ![r] = IF outcome \in {"crawling", "fetch_failed"}
                                   THEN [@ EXCEPT !.pc = "crawl"]
                                   ELSE IdleRun]
    /\ UNCHANGED <<hasId, site, store>>

\* run_spider up to the first item  (main.py:79-92): the flag is set, the
\* process launched; when there is no crawl, finally resets the flag.
RunSpiderStart(r, outcome) ==
    /\ runs[r].pc = "queued"
    /\ running' = (outcome = "crawling")
    /\ runs' = [runs EXCEPT ![r] = IF outcome = "crawling"
                                   THEN [@ EXCEPT !.pc = "crawl"]
                                   ELSE IdleRun]
    /\ UNCHANGED <<hasId, site, store>>

\* GET /sourav-updated up to the first item  (main.py:32-44)
GetUpdatedDataStart(r, outcome) ==
    /\ runs[r].pc = "idle"
    /\ \A q \in RunIds : q < r => runs[q].pc # "idle"
    /\ runs' = [runs EXCEPT ![r] = IF outcome = "crawling"
                                   THEN [IdleRun EXCEPT !.kind = "sync", !.pc = "crawl"]
                                   ELSE IdleRun]
    /\ UNCHANGED <<hasId, site, store, running>>

\* The four normalised fields are empty: not any([name, position, location,
\* email])  (pipelines.py:35)
AllEmpty(rec) ==
    /\ rec.name.text = <<>> /\ rec.position.text = <<>>
    /\ rec.location.text = <<>> /\ rec.email.text = <<>>

\* process_item with a skip taken for a record whose fields are all empty:
\* no statement is executed for it.
ProcessItemSkipsEmpty(r, outcome) ==
    /\ runs[r].pc = "crawl"
    /\ runs[r].idx < Len(site)
    /\ LET item == ParseMember(site[runs[r].idx + 1])
           rec == Normalize(item)
           open == runs[r].pending
           stmts == IF AllEmpty(rec) THEN open ELSE Append(open, rec)
       IN  /\ outcome = "execute_error" \/ ~LockedFor(r)
           /\ outcome = "execute_error"
                \/ NextRowId(UpsertAll(store, stmts)) <= MaxId + 1
           /\ store' = IF outcome = "committed" THEN UpsertAll(store, stmts) ELSE store
           /\ runs' = [runs EXCEPT
                         ![r].idx = @ + 1,
                         ![r].emitted = Append(@, item),
                         ![r].pending = CASE outcome = "committed" -> <<>>
                                          [] outcome = "commit_error" -> stmts
                                          [] OTHER -> open]
    /\ UNCHANGED <<hasId, site, running>>

\* One turn of the loop of parse() (vorysdata.py:13-23) and the process_item
\* call scrapy makes for the item it yields (pipelines.py:26-50).  When
\* cur.execute raises nothing is written; when con.commit raises the row
\* stays written in the connection's open transaction: the except branch
\* only logs, it does not roll back.
ProcessItem(r, outcome) ==
    /\ runs[r].pc = "crawl"
    /\ runs[r].idx < Len(site)
    /\ LET item == ParseMember(site[runs[r].idx + 1])
           rec == Normalize(item)
           open == runs[r].pending
       IN  /\ outcome = "execute_error" \/ ~LockedFor(r)
           /\ outcome = "execute_error"
                \/ NextRowId(UpsertAll(store, Append(open, rec))) <= MaxId + 1
           /\ store' = IF outcome = "committed"
                       THEN UpsertAll(store, Append(open, rec))
                       ELSE store
           /\ runs' = [runs EXCEPT
                         ![r].idx = @ + 1,
                         ![r].emitted = Append(@, item),
                         ![r].pending = CASE outcome = "committed" -> <<>>
                                          [] outcome = "commit_error" -> Append(open, rec)
                                          [] OTHER -> open]
    /\ UNCHANGED <<hasId, site, running>>

\* A run_spider that ends without resetting the flag.
RunSpiderEndKeepsFlag(r) ==
    /\ runs[r].pc = "crawl"
    /\ runs[r].kind = "bg"
    /\ runs[r].idx = Len(site)
    /\ runs' = [runs EXCEPT ![r] = IdleRun]
    /\ UNCHANGED <<hasId, site, store, running>>

\* parse() has gone through every member block: the spider closes, the
\* process ends (what its connection had not committed is lost) and
\* run_spider's finally resets the flag  (main.py:89-92).
RunSpiderEnd(r) ==
    /\ runs[r].pc = "crawl"
    /\ runs[r].kind = "bg"
    /\ runs[r].idx = Len(site)
    /\ running' = FALSE
    /\ runs' = [runs EXCEPT ![r] = IdleRun]
    /\ UNCHANGED <<hasId, site, store>>

\* The same for get_updated_data, which then reads the table  (main.py:46-48).
GetUpdatedDataEnd(r) ==
    /\ runs[r].pc = "crawl"
    /\ runs[r].kind = "sync"
    /\ runs[r].idx = Len(site)
    /\ runs' = [runs EXCEPT ![r] = IdleRun]
    /\ UNCHANGED <<hasId, site, store, running>>

-----------------------------------------------------------------------------
(* The command and query handlers of main.py *)

\* GET /sourav  (main.py:26-29)
GetScrapedData == UNCHANGED <<hasId, site, store, runs, running>>

\* GET /status  (main.py:98-100)
GetScrapeStatus == UNCHANGED <<hasId, site, store, runs, running>>

\* add_scraped_data on a table without the UNIQUE constraint.
AddStatusNoUnique(data) ==
    CASE ~ValidPayload(data) -> 422
      [] Locked -> 400
      [] OTHER -> 200

\* The status code of POST /sourav/add  (main.py:124-138).  A body that is
\* no ScrapedData is answered 422 before the handler runs; an exception of
\* db.execute or db.commit is answered 400 after db.rollback().
AddStatus(data) ==
    CASE ~ValidPayload(data) -> 422
      [] Locked -> 400
      [] HasConflict(store, data) -> 400
      [] OTHER -> 200

AddScrapedData(data) ==
    /\ AddStatus(data) = 200 => NextRowId(store) <= MaxId
    /\ store' = IF AddStatus(data) = 200 THEN InsertRow(store, data) ELSE store
    /\ UNCHANGED <<hasId, site, runs, running>>

\* The status code of PUT /sourav/update/{data_id}  (main.py:142-155).
\* Without an "id" column scraped_data.c.id raises AttributeError inside
\* the try.
UpdateStatus(id, data) ==
    CASE ~ValidPayload(data) -> 422
      [] ~hasId -> 400
      [] Locked -> 400
      [] UpdateConflict(store, id, data) -> 400
      [] OTHER -> 200

UpdateScrapedData(id, data) ==
    /\ store' = IF UpdateStatus(id, data) = 200 THEN UpdateRows(store, id, data) ELSE store
    /\ UNCHANGED <<hasId, site, runs, running>>

\* The status code of DELETE /sourav/delete/{name}  (main.py:159-168)
DeleteStatus(name) == IF Locked THEN 400 ELSE 200

DeleteScrapedData(name) ==
    /\ store' = IF DeleteStatus(name) = 200 THEN DeleteRows(store, name) ELSE store
    /\ UNCHANGED <<hasId, site, runs, running>>

-----------------------------------------------------------------------------
(* The system: every handler, two crawl slots *)

Next ==
    \/ \E r \in RunIds : RunScraperAsync(r) /\ UNCHANGED last
    \/ \E r \in RunIds, o \in LaunchOutcomes : RunSpiderStart(r, o) /\ UNCHANGED last
    \/ \E r \in RunIds, o \in LaunchOutcomes : GetUpdatedDataStart(r, o) /\ UNCHANGED last
    \/ \E r \in RunIds, o \in UpsertOutcomes : ProcessItem(r, o) /\ UNCHANGED last
    \/ \E r \in RunIds : RunSpiderEnd(r) /\ UNCHANGED last
    \/ \E r \in RunIds : GetUpdatedDataEnd(r) /\ UNCHANGED last
    \/ GetScrapedData /\ UNCHANGED last
    \/ GetScrapeStatus /\ UNCHANGED last
    \/ \E data \in Payloads : AddScrapedData(data) /\ UNCHANGED last
    \/ \E id \in 1..MaxId, data \in Payloads : UpdateScrapedData(id, data) /\ UNCHANGED last
    \/ \E name \in DeleteNames : DeleteScrapedData(name) /\ UNCHANGED last

Spec == Init /\ [][Next]_vars

\* The triggers, the crawls they start and GET /status.
NextLive ==
    \/ \E r \in RunIds : RunScraperAsync(r) /\ UNCHANGED last
    \/ \E r \in RunIds, o \in LaunchOutcomes : RunSpiderStart(r, o) /\ UNCHANGED last
    \/ \E r \in RunIds, o \in LaunchOutcomes : GetUpdatedDataStart(r, o) /\ UNCHANGED last
    \/ \E r \in RunIds, o \in UpsertOutcomes : ProcessItem(r, o) /\ UNCHANGED last
    \/ \E r \in RunIds : RunSpiderEnd(r) /\ UNCHANGED last
    \/ \E r \in RunIds : GetUpdatedDataEnd(r) /\ UNCHANGED last
    \/ GetScrapeStatus /\ UNCHANGED last

\* A background task that was added is run, and a crawl process that was
\* launched goes through its page and ends: nothing cancels or suspends it.
\* The call of process_item for the next item is enabled exactly when the
\* call with the outcome "execute_error" is, the outcome possible in every
\* state, and a run makes Len(site) calls at most: fairness for that call
\* keeps a crawl from stalling and forces no outcome on it.
Fairness ==
    \A r \in RunIds :
        /\ WF_vars((\E o \in LaunchOutcomes : RunSpiderStart(r, o)) /\ UNCHANGED last)
        /\ WF_vars(ProcessItem(r, "execute_error") /\ UNCHANGED last)
        /\ WF_vars(RunSpiderEnd(r) /\ UNCHANGED last)

SpecLive == Init /\ [][NextLive]_vars /\ Fairness

-----------------------------------------------------------------------------
(* The same handlers with what each step was and answered recorded in     *)
(* last, for one crawl slot                                                *)

\* The reply of GET /sourav: the rows, or 500 when the SELECT raises.
GetScrapedDataReply ==
    [ op |-> "get_scraped_data",
      status |-> IF Locked THEN 500 ELSE 200,
      rows |-> IF Locked THEN <<>> ELSE ListAll(store) ]

\* The reply of GET /  (main.py:96): sent before run_spider starts, and the
\* only thing the caller of the trigger is ever sent.
RunScraperAsyncReply == [op |-> "run_scraper_async", status |-> 200]

\* The reply of GET /status  (main.py:100)
GetScrapeStatusReply == [op |-> "get_scrape_status", status |-> 200, scraping |-> running]

\* The reply of GET /sourav-updated  (main.py:46-53): check=True turns a
\* non-zero return code into CalledProcessError, answered 500 like any
\* other exception; after a return code of 0 the table is read.
GetUpdatedDataReply(r, outcome) ==
    LET ok == outcome \in {"fetch_failed", "finished"} /\ ~LockedFor(r)
    IN  [ op |-> "get_updated_data", outcome |-> outcome,
          status |-> CASE outcome = "crawling" -> 0
                       [] ok -> 200
                       [] OTHER -> 500,
          rows |-> IF ok THEN ListAll(store) ELSE <<>> ]

\* What process_item did with the item of member block idx + 1 of run r:
\* the item, what the storage layer answered, whether a row with the item's
\* triple was in the table, and what process_item returned.
ProcessItemRecord(r, outcome) ==
    LET item == ParseMember(site[runs[r].idx + 1])
    IN  [ op |-> "process_item", status |-> outcome, item |-> item,
          conflict |-> HasConflict(UpsertAll(store, runs[r].pending), Normalize(item)),
          returned |-> item ]

AddReply(data) ==
    [ op |-> "add_scraped_data", status |-> AddStatus(data),
      valid |-> ValidPayload(data),
      duplicate |-> ValidPayload(data) /\ HasConflict(store, data) ]

UpdateReply(id, data) ==
    [ op |-> "update_scraped_data", status |-> UpdateStatus(id, data),
      valid |-> ValidPayload(data),
      matched |-> Cardinality({i \in 1..Len(store) : store[i].id = id}),
      duplicate |-> ValidPayload(data) /\ UpdateConflict(store, id, data) ]

DeleteReply(name) ==
    [ op |-> "delete_scraped_data", status |-> DeleteStatus(name), name |-> name,
      matched |-> Len(store) - Len(DeleteRows(store, name)) ]

ObservedRuns == {1}

NextObserved ==
    \/ \E r \in ObservedRuns :
          RunScraperAsync(r) /\ last' = RunScraperAsyncReply
    \/ \E r \in ObservedRuns, o \in LaunchOutcomes :
          RunSpiderStart(r, o) /\ last' = [op |-> "run_spider", status |-> o]
    \/ \E r \in ObservedRuns, o \in LaunchOutcomes :
          GetUpdatedDataStart(r, o) /\ last' = GetUpdatedDataReply(r, o)
    \/ \E r \in ObservedRuns, o \in UpsertOutcomes :
          ProcessItem(r, o) /\ last' = ProcessItemRecord(r, o)
    \/ \E r \in ObservedRuns :
          RunSpiderEnd(r) /\ last' = [op |-> "run_spider", status |-> "finished"]
    \/ \E r \in ObservedRuns :
          GetUpdatedDataEnd(r) /\ last' = GetUpdatedDataReply(r, "finished")
    \/ GetScrapedData /\ last' = GetScrapedDataReply
    \/ GetScrapeStatus /\ last' = GetScrapeStatusReply
    \/ \E data \in Payloads : AddScrapedData(data) /\ last' = AddReply(data)
    \/ \E id \in 1..MaxId, data \in Payloads :
          UpdateScrapedData(id, data) /\ last' = UpdateReply(id, data)
    \/ \E name \in DeleteNames : DeleteScrapedData(name) /\ last' = DeleteReply(name)

SpecObserved == Init /\ [][NextObserved]_vars

-----------------------------------------------------------------------------
(* The query handlers on a table left by earlier writes *)

\* SQLite's lower(): ASCII letters only.
SqlLower(s) == [i \in 1..Len(s) |-> LowerChar(s[i])]

\* SQLite's LIKE on texts already lowercased: "%" stands for any run of
\* characters, "_" for any one character.
RECURSIVE LikeMatch(_, _)
LikeMatch(pattern, s) ==
    IF pattern = <<>> THEN s = <<>>
    ELSE IF Head(pattern) = "%"
         THEN LikeMatch(Tail(pattern), s) \/ (s # <<>> /\ LikeMatch(pattern, Tail(s)))
    ELSE IF Head(pattern) = "_"
         THEN s # <<>> /\ LikeMatch(Tail(pattern), Tail(s))
    ELSE s # <<>> /\ Head(pattern) = Head(s) /\ LikeMatch(Tail(pattern), Tail(s))

\* column.ilike(pattern), which SQLAlchemy renders for SQLite as
\* lower(column) LIKE lower(pattern); a NULL column matches nothing.
ILike(column, pattern) ==
    ~column.none /\ LikeMatch(SqlLower(pattern), SqlLower(column.text))

\* f"%{value.lower()}%"  (main.py:60, 62)
Contains(value) == <<"%">> \o Lower(value) \o <<"%">>

\* The rows of GET /sourav/search  (main.py:56-65): a filter is applied
\* when its value is not empty.
SearchRows(rows, name, location) ==
    SelectSeq(rows, LAMBDA r :
        /\ name # <<>> => ILike(r.name, Contains(name))
        /\ location # <<>> => ILike(r.location, Contains(location)))

SearchReply(name, location) ==
    [ op |-> "search_scraped_data", name |-> name, location |-> location,
      status |-> IF Locked THEN 500 ELSE 200,
      rows |-> IF Locked THEN <<>> ELSE ListAll(SearchRows(store, name, location)) ]

SearchScrapedData(name, location) ==
    /\ last' = SearchReply(name, location)
    /\ UNCHANGED <<hasId, site, store, runs, running>>

\* A page whose first row is the last row of the page before it.
PageRowsOverlapping(rows, skip, limit) ==
    LET from == IF skip < 1 THEN 1 ELSE skip
        to == IF limit < 0 \/ from + limit - 1 > Len(rows)
              THEN Len(rows) ELSE from + limit - 1
    IN  IF from > to THEN <<>> ELSE SubSeq(rows, from, to)

\* SELECT ... LIMIT limit OFFSET skip in rowid order  (main.py:70): a
\* negative OFFSET counts as 0, a negative LIMIT as no limit.
PageRows(rows, skip, limit) ==
    LET from == IF skip < 0 THEN 1 ELSE skip + 1
        to == IF limit < 0 \/ from + limit - 1 > Len(rows)
              THEN Len(rows) ELSE from + limit - 1
    IN  IF from > to THEN <<>> ELSE SubSeq(rows, from, to)

\* The reply of GET /sourav/paginated  (main.py:68-72)
PaginatedReply(skip, limit) ==
    [ op |-> "paginated_scraped_data", skip |-> skip, limit |-> limit,
      status |-> IF Locked THEN 500 ELSE 200,
      rows |-> IF Locked THEN <<>> ELSE ListAll(PageRows(store, skip, limit)) ]

PaginatedScrapedData(skip, limit) ==
    /\ last' = PaginatedReply(skip, limit)
    /\ UNCHANGED <<hasId, site, store, runs, running>>

\* The sequences over S of length at most n.
RECURSIVE SeqsUpTo(_, _)
SeqsUpTo(S, n) ==
    IF n = 0 THEN {<<>>}
    ELSE LET shorter == SeqsUpTo(S, n - 1)
         IN  shorter \cup {Append(q, x) : q \in shorter, x \in S}

\* Rows written through POST /sourav/add, which stores its fields as sent.
QueryRecords ==
    { [ name |-> Text(<<"a">>), position |-> Text(<<"P">>),
        location |-> Text(<<"c", "b">>), email |-> Text(<<"e">>) ],
      [ name |-> Text(<<"A", "b">>), position |-> Text(<<"q">>),
        location |-> Text(<<"b">>), email |-> Text(<<"e">>) ],
      [ name |-> Text(<<"b">>), position |-> Text(<<"P">>),
        location |-> Text(<<"C", "B">>), email |-> Text(<<"none">>) ] }

RECURSIVE InsertAll(_, _)
InsertAll(rows, recs) ==
    IF recs = <<>> THEN rows
    ELSE InsertAll(InsertRow(rows, Head(recs)), Tail(recs))

\* The tables that up to MaxId successful creates of different records
\* leave behind.
QueryStores ==
    { InsertAll(<<>>, recs) :
        recs \in { q \in SeqsUpTo(QueryRecords, MaxId) :
                     \A i, j \in 1..Len(q) : i # j => q[i] # q[j] } }

\* Values of the name and location query parameters.
FilterChars == {"B", "_", "%"}

Filters == SeqsUpTo(FilterChars, MaxPatLen)

InitQuery ==
    /\ hasId \in BOOLEAN
    /\ site = <<>>
    /\ store \in QueryStores
    /\ runs = [r \in RunIds |-> IdleRun]
    /\ running = FALSE
    /\ last = [op |-> "init", status |-> "none"]

NextSearch == \E name \in Filters, location \in Filters : SearchScrapedData(name, location)

SpecSearch == InitQuery /\ [][NextSearch]_vars

NextPage ==
    \E skip \in (-1)..MaxLimit, limit \in (-1)..(2 * MaxLimit) :
        PaginatedScrapedData(skip, limit)

SpecPage == InitQuery /\ [][NextPage]_vars

-----------------------------------------------------------------------------
(* One crawl slot and the reads: runs follow one another, nothing else     *)
(* writes                                                                  *)

\* A member block whose four selectors match blank text: the item's four
\* fields are empty once normalised.
BlankMember ==
    [ name |-> Text(<<" ">>), position |-> Text(<<>>),
      location |-> Text(<<"\t">>), href |-> Text(<<"mailto:">>) ]

RunDirectory == Directory \o <<BlankMember>>

\* The listing page shows up to MaxMembers consecutive entries.
RunPages ==
    { SubSeq(RunDirectory, w[1], w[2]) :
        w \in { v \in (1..Len(RunDirectory)) \X (0..Len(RunDirectory)) :
                  v[1] - 1 <= v[2] /\ v[2] - v[1] + 1 <= MaxMembers } }

InitRun ==
    /\ hasId \in BOOLEAN
    /\ site \in RunPages
    /\ store = <<>>
    /\ runs = [r \in RunIds |-> IdleRun]
    /\ running = FALSE
    /\ last = [op |-> "init", status |-> "none"]

NextRun ==
    \/ \E r \in ObservedRuns : RunScraperAsync(r) /\ last' = RunScraperAsyncReply
    \/ \E r \in ObservedRuns, o \in LaunchOutcomes :
          RunSpiderStart(r, o) /\ last' = [op |-> "run_spider", status |-> o]
    \/ \E r \in ObservedRuns, o \in LaunchOutcomes :
          GetUpdatedDataStart(r, o) /\ last' = GetUpdatedDataReply(r, o)
    \/ \E r \in ObservedRuns, o \in UpsertOutcomes :
          ProcessItem(r, o) /\ last' = ProcessItemRecord(r, o)
    \/ \E r \in ObservedRuns :
          RunSpiderEnd(r) /\ last' = [op |-> "run_spider", status |-> "finished"]
    \/ \E r \in ObservedRuns :
          GetUpdatedDataEnd(r) /\ last' = GetUpdatedDataReply(r, "finished")
    \/ GetScrapedData /\ last' = GetScrapedDataReply
    \/ \E limit \in 1..MaxLimit : PaginatedScrapedData(0, limit)

SpecRun == InitRun /\ [][NextRun]_vars

-----------------------------------------------------------------------------
(* Properties *)

RowsWithTriple(t) == {i \in 1..Len(store) : Triple(store[i]) = t}

\* C1: once process_item has committed a record that carries a position,
\* the table holds exactly one row with the record's normalised (name,
\* location, email), and that row's position is the record's trimmed
\* position -- so of two records with the same triple and different
\* positions, ingested one after the other, the second one's position is
\* the one stored, in a single row.
C1_SecondPositionStored ==
    (last.op = "process_item" /\ last.status = "committed" /\ ~last.item.position.none)
    => LET hits == RowsWithTriple(Triple(Normalize(last.item)))
       IN  /\ Cardinality(hits) = 1
           /\ \A i \in hits : store[i].position = Text(Strip(last.item.position.text))

\* A run has ingested two records with the same triple and different
\* positions, the second upsert met the row of the first, and the one row
\* carries the second position.
C1_Witness ==
    /\ last.op = "process_item" /\ last.status = "committed" /\ last.conflict
    /\ runs[1].idx = 2
    /\ LET first == runs[1].emitted[1]
           second == runs[1].emitted[2]
       IN  /\ Triple(Normalize(first)) = Triple(Normalize(second))
           /\ Strip(first.position.text) # Strip(second.position.text)
           /\ Len(store) = 1
           /\ store[1].position = Text(Strip(second.position.text))

\* C2: no two rows of the table have the same (name, location, email),
\* whatever the interleaving of the upserts of concurrent runs with create,
\* update-by-id and delete-by-name.
C2_UniqueTriples ==
    \A i, j \in 1..Len(store) : i # j => Triple(store[i]) # Triple(store[j])

\* Two runs are crawling, each has passed an item to the pipeline, and the
\* table holds rows.
C2_Witness ==
    /\ \A r \in {1, 2} : runs[r].pc = "crawl" /\ runs[r].idx >= 1
    /\ Len(store) >= 2

-----------------------------------------------------------------------------
\* What the specification has the pipeline store for a raw value: the value
\* trimmed, lowercased for name, location and email; null for a null value.
TrimmedLower(v) == IF v.none THEN None ELSE Text(Lower(Strip(v.text)))

Trimmed(v) == IF v.none THEN None ELSE Text(Strip(v.text))

\* C3: the row process_item writes for a raw record has name, location and
\* email equal to the raw value trimmed and lowercased, and position equal
\* to the raw value trimmed with its case kept.
C3_RowIsNormalisedRecord ==
    (last.op = "process_item" /\ last.status = "committed")
    => \E i \in 1..Len(store) :
          /\ store[i].name = TrimmedLower(last.item.name)
          /\ store[i].location = TrimmedLower(last.item.location)
          /\ store[i].email = TrimmedLower(last.item.email)
          /\ store[i].position = Trimmed(last.item.position)

\* The same for the records whose four fields are text: it holds.
C3_TextRecordsNormalised ==
    (/\ last.op = "process_item" /\ last.status = "committed"
     /\ ~last.item.name.none /\ ~last.item.position.none
     /\ ~last.item.location.none /\ ~last.item.email.none)
    => \E i \in 1..Len(store) :
          /\ store[i].name = TrimmedLower(last.item.name)
          /\ store[i].location = TrimmedLower(last.item.location)
          /\ store[i].email = TrimmedLower(last.item.email)
          /\ store[i].position = Trimmed(last.item.position)

\* C4: a member block without an email link yields an item with a null
\* email, the row stored for it has a null email, and the run goes on with
\* the next member block.
C4_NullEmailStored ==
    /\ \A r \in RunIds : \A k \in 1..Len(runs[r].emitted) :
          site[k].href.none => runs[r].emitted[k].email.none
    /\ (last.op = "process_item" /\ last.item.email.none)
       => /\ \E r \in RunIds : runs[r].pc = "crawl"
          /\ last.status = "committed"
             => \E i \in 1..Len(store) :
                   /\ store[i].name = TrimmedLower(last.item.name)
                   /\ store[i].location = TrimmedLower(last.item.location)
                   /\ store[i].email.none

\* The part of C4 the code keeps: the item has a null email and the run
\* goes on; the row stored for it has the text "none" as its email.
C4_NullEmailStoredAsText ==
    (last.op = "process_item" /\ last.item.email.none)
    => /\ \E r \in RunIds : runs[r].pc = "crawl"
       /\ last.status = "committed"
          => \E i \in 1..Len(store) : store[i].email = Text(<<"n", "o", "n", "e">>)

\* C5: a delete-by-name that succeeds leaves no row with that name, keeps
\* every other row as it was and in order, and the list-all that follows
\* returns none of the removed rows.
C5_DeleteByName ==
    [][ \A n \in DeleteNames :
          (last' = DeleteReply(n) /\ DeleteStatus(n) = 200)
          => LET others == {i \in 1..Len(store) : store[i].name # Text(n)}
             IN  /\ \A j \in 1..Len(store') : store'[j].name # Text(n)
                 /\ Len(store') = Cardinality(others)
                 /\ \A i \in others : \E j \in 1..Len(store') : store'[j] = store[i]
                 /\ \A j, k \in 1..Len(store') : j < k => store'[j].id < store'[k].id
                 /\ \A j \in 1..Len(GetScrapedDataReply.rows') :
                       GetScrapedDataReply.rows'[j].name # Text(n) ]_vars

\* A delete has removed two rows sharing the name and left a third row.
C5_Witness ==
    /\ last.op = "delete_scraped_data" /\ last.status = 200 /\ last.matched = 2
    /\ Len(store) = 1

\* C8: when the upsert of a record fails, process_item returns the item and
\* raises nothing, the record is not stored, the run goes on, and a later
\* record whose upsert succeeds is stored as if no failure had occurred:
\* the successful call changes the table by its own record only.
C8_FailedRecordDropped ==
    [][ \A o \in UpsertOutcomes :
          (last'.op = "process_item" /\ last'.status = o)
          => /\ last'.returned = last'.item
             /\ \E r \in RunIds : runs'[r].pc = "crawl"
             /\ o # "committed" => store' = store
             /\ o = "committed" => store' = Upsert(store, Normalize(last'.item)) ]_vars

\* The part of C8 the code keeps: a failed call stores nothing at once,
\* returns the item and lets the run go on.
C8_FailedCallContinues ==
    [][ (last'.op = "process_item" /\ last'.status # "committed")
          => /\ last'.returned = last'.item
             /\ \E r \in RunIds : runs'[r].pc = "crawl"
             /\ store' = store ]_vars

\* C9: a create, update-by-id or delete whose target does not exist or whose
\* payload is invalid (a duplicate triple included) answers with an error
\* and leaves the table as it was.
C9_BadCommandRejected ==
    [][ ( \/ last'.op = "add_scraped_data" /\ (~last'.valid \/ last'.duplicate)
          \/ last'.op = "update_scraped_data"
               /\ (~last'.valid \/ last'.duplicate \/ last'.matched = 0)
          \/ last'.op = "delete_scraped_data" /\ last'.matched = 0 )
        => last'.status >= 400 /\ store' = store ]_vars

\* C10: a run whose fetch of the start page fails yields no item and leaves
\* the table as it was; a run that crawls yields the item of each member
\* block in page order, all of them by the time it ends.
ItemOfBlock(item, member) ==
    /\ item.name = member.name
    /\ item.position = member.position
    /\ item.location = member.location
    /\ item.email.none <=> member.href.none

C10_AllOrNothing ==
    [][ /\ (last'.op = "run_spider" /\ last'.status = "fetch_failed")
           => store' = store /\ \A r \in ObservedRuns : runs'[r] = IdleRun
        /\ (last'.op = "get_updated_data" /\ last'.outcome = "fetch_failed")
           => store' = store /\ \A r \in ObservedRuns : runs'[r] = IdleRun
        /\ \A r \in ObservedRuns :
              /\ Len(runs'[r].emitted) = runs'[r].idx
              /\ \A k \in 1..Len(runs'[r].emitted) :
                    ItemOfBlock(runs'[r].emitted[k], site[k])
        /\ ( \/ last'.op = "run_spider" /\ last'.status = "finished"
             \/ last'.op = "get_updated_data" /\ last'.outcome = "finished" )
           => \A r \in ObservedRuns : Len(runs[r].emitted) = Len(site) ]_vars

\* A background run failed to fetch a page that has member blocks, with
\* rows in the table.
C10_Witness ==
    /\ last.op = "run_spider" /\ last.status = "fetch_failed"
    /\ Len(site) = 2 /\ Len(store) >= 1

-----------------------------------------------------------------------------
\* C6: for every N >= 1 the page (skip = N, limit = N) shares no row with
\* the page (skip = 0, limit = N), and the two in this order make up the
\* page (skip = 0, limit = 2N).
C6_PagesPartition ==
    (last.op = "paginated_scraped_data" /\ last.limit >= 1 /\ last.skip = last.limit)
    => LET first == PaginatedReply(0, last.limit).rows
           both == PaginatedReply(0, 2 * last.limit).rows
       IN  /\ first \o last.rows = both
           /\ \A i \in 1..Len(first), j \in 1..Len(last.rows) : first[i] # last.rows[j]

\* The second page of a table of three rows, for N = 1, holds a row.
C6_Witness ==
    /\ last.op = "paginated_scraped_data" /\ last.skip = 1 /\ last.limit = 1
    /\ Len(store) = 3 /\ Len(last.rows) = 1

\* A text contains another, letter case aside.
IsInfix(part, whole) ==
    \E k \in 0..(Len(whole) - Len(part)) :
        \A i \in 1..Len(part) : LowerChar(whole[k + i]) = LowerChar(part[i])

\* C7: the search returns exactly the rows whose name contains the name
\* filter and whose location contains the location filter, letter case
\* aside; an empty filter restricts nothing.
C7_SearchIsSubstringMatch ==
    last.op = "search_scraped_data"
    => last.rows = ListAll(SelectSeq(store, LAMBDA r :
                      /\ IsInfix(last.name, r.name.text)
                      /\ IsInfix(last.location, r.location.text)))

\* The same for filters without the characters "%" and "_": it holds.
C7_PlainFiltersAreSubstringMatch ==
    (/\ last.op = "search_scraped_data"
     /\ \A i \in 1..Len(last.name) : last.name[i] \notin {"%", "_"}
     /\ \A i \in 1..Len(last.location) : last.location[i] \notin {"%", "_"})
    => last.rows = ListAll(SelectSeq(store, LAMBDA r :
                      /\ IsInfix(last.name, r.name.text)
                      /\ IsInfix(last.location, r.location.text)))

-----------------------------------------------------------------------------
\* The outcomes of a launch that are fatal to the run.
FatalOutcomes == {"fetch_failed", "failed", "oserror"}

\* C11: a run that fails fatally -- the crawl process fails or the start page
\* cannot be fetched -- is answered to the caller that triggered it with a
\* failure status, for GET / as for GET /sourav-updated.
C11_FailureReachesCaller ==
    [][ /\ (last'.op = "get_updated_data" /\ last'.outcome \in FatalOutcomes)
           => last'.status >= 400
        /\ (last'.op = "run_spider" /\ last'.status \in FatalOutcomes)
           => RunScraperAsyncReply.status >= 400 ]_vars

\* The part of C11 the code keeps: GET /sourav-updated answers 500 when the
\* crawl process ends with a failure code or cannot be launched.
C11_SyncProcessFailureReported ==
    [][ (last'.op = "get_updated_data" /\ last'.outcome \in {"failed", "oserror"})
        => last'.status = 500 ]_vars

-----------------------------------------------------------------------------
\* C12: the trigger is accepted whatever the running flag says -- whenever a
\* crawl slot is free GET / can be taken, also while a run is active -- and
\* a trigger taken while a run is active adds a run and leaves the active
\* ones as they are.
C12_TriggerNeverRejected ==
    \A r \in RunIds :
        (runs[r].pc = "idle" /\ \A q \in RunIds : q < r => runs[q].pc # "idle")
        => ENABLED (RunScraperAsync(r) /\ UNCHANGED last)

\* Two background runs are crawling at once, the second triggered while the
\* flag was set, and both have written to the table.
C12_Witness ==
    /\ \A r \in {1, 2} :
          runs[r].kind = "bg" /\ runs[r].pc = "crawl" /\ runs[r].idx >= 1
    /\ running
    /\ Len(store) >= 1

-----------------------------------------------------------------------------
\* C13: every successful upsert is committed on its own, so each step of a
\* run takes the table from the pre-run table with a prefix of the run's
\* records applied, failed ones skipped, to the same with the next record
\* applied when its upsert succeeds and skipped when it fails; the other
\* steps of the run leave the table alone, and a read between two steps
\* returns the table as it then is.
C13_PrefixApplied ==
    [][ /\ last'.op = "process_item"
           => store' = IF last'.status = "committed"
                       THEN Upsert(store, Normalize(last'.item))
                       ELSE store
        /\ last'.op \in {"run_scraper_async", "run_spider", "get_updated_data"}
           => store' = store
        /\ (last'.op \in {"get_scraped_data", "paginated_scraped_data"}
              /\ last'.status = 200)
           => /\ store' = store
              /\ \A i \in 1..Len(last'.rows) : last'.rows[i] = RowDict(store[i]) ]_vars

\* The part of C13 the code keeps: as long as no commit of the run's
\* connection has failed, a record whose upsert succeeds is applied on its
\* own and a record whose cur.execute fails is skipped.
C13_PrefixAppliedWhileCommitsSucceed ==
    [][ (/\ last'.op = "process_item"
         /\ last'.status # "commit_error"
         /\ \A r \in ObservedRuns : runs[r].pending = <<>>)
        => store' = IF last'.status = "committed"
                    THEN Upsert(store, Normalize(last'.item))
                    ELSE store ]_vars

-----------------------------------------------------------------------------
-----------------------------------------------------------------------------
BlankRows == {i \in 1..Len(store) : AllEmpty(store[i])}

-----------------------------------------------------------------------------
\* C16: GET /status answers running = true in every state in which a crawl
\* is going on, whichever endpoint started it and however the runs overlap.
C16_StatusTrueWhileCrawling ==
    (\E r \in RunIds : runs[r].pc = "crawl") => GetScrapeStatusReply.scraping

\* The part of C16 the code keeps: when runs only follow one another, GET
\* /status answers true while a run started by GET / is crawling.
C16_StatusTrueForRunsInSequence ==
    \A r \in ObservedRuns :
        (runs[r].pc = "crawl" /\ runs[r].kind = "bg") => GetScrapeStatusReply.scraping

-----------------------------------------------------------------------------
\* C17: the flag is set only while a background run is crawling -- so it is
\* false before the first trigger and whenever every triggered run has
\* finished -- and every background run, once triggered, comes to an end
\* with the flag false, whether its process crawls, exits with a failure code
\* or cannot be launched.
C17_FlagReset ==
    /\ [](running => \E r \in RunIds : runs[r].kind = "bg" /\ runs[r].pc = "crawl")
    /\ \A r \in RunIds :
          (runs[r].kind = "bg" /\ runs[r].pc \in {"queued", "crawl"})
          ~> (runs[r].pc = "idle" /\ ~running)

\* The first of two background runs has ended and reset the flag.
C17_Witness ==
    /\ runs[1] = IdleRun
    /\ runs[2].kind = "bg" /\ runs[2].pc = "crawl"
    /\ ~running

====
